---- MODULE Spec2Model ----
(***************************************************************************)
(* Model of src/Python Script/Processor.py: the event-log pipeline         *)
(* (process_data), the variant derivation with its 95% Pareto reduction    *)
(* and 90% boundary-node selection (get_variants_logic, get_top_nodes).    *)
(*                                                                         *)
(* Timestamps are whole seconds.  Avg_Timings / Total_Timings are kept in  *)
(* hundredths of a second (the code rounds them to 2 decimals).            *)
(***************************************************************************)
EXTENDS Integers, Sequences, FiniteSets, TLC

(***************************************************************************)
(* Float64 arithmetic.  The Pareto cut-off compares an accumulated sum of  *)
(* Float64 percentages with 0.95, so the rounding of every operation is    *)
(* modelled.  A positive double is [m, e] with value m * 2^e and m a       *)
(* 53-bit integer, held as little-endian limbs in base 2^15.               *)
(***************************************************************************)
Base == 32768
LimbBits == 15
MantBits == 53

\* F(a), F(a, b), F(a, b, c) with the arguments evaluated once, before use.
Eval1(F(_), a) == CHOOSE r \in {F(x) : x \in {a}} : TRUE
Eval2(F(_, _), a, b) == CHOOSE r \in {F(x, y) : x \in {a}, y \in {b}} : TRUE
Eval3(F(_, _, _), a, b, c) ==
  CHOOSE r \in {F(x, y, z) : x \in {a}, y \in {b}, z \in {c}} : TRUE

RECURSIVE Pow2(_)
Pow2(n) == IF n = 0 THEN 1 ELSE 2 * Pow2(n - 1)

\* Number of limbs of n once its leading zero limbs are dropped.
RECURSIVE NormLen(_, _)
NormLen(n, i) == IF i = 0 THEN 0 ELSE IF n[i] # 0 THEN i ELSE NormLen(n, i - 1)

BigNorm(n) == Eval1(LAMBDA v : SubSeq(v, 1, NormLen(v, Len(v))), n)

BigFromInt(i) == BigNorm(<<i % Base, (i \div Base) % Base, i \div (Base * Base)>>)

RECURSIVE BigMulFrom(_, _, _, _)
BigMulFrom(n, k, i, carry) ==
  IF i > Len(n) THEN (IF carry = 0 THEN <<>> ELSE <<carry>>)
  ELSE Eval2(LAMBDA cur, j : <<cur % Base>> \o BigMulFrom(n, k, j, cur \div Base),
             n[i] * k + carry, i + 1)

BigMulSmall(n, k) == Eval2(LAMBDA v, w : BigNorm(BigMulFrom(v, w, 1, 0)), n, k)

\* Long division of a big number by a small one, most significant limb first.
RECURSIVE BigDivStep(_, _, _, _)
BigDivStep(n, k, i, r) ==
  IF i = 0 THEN [q |-> <<>>, r |-> r]
  ELSE Eval2(LAMBDA cur, j :
               Eval1(LAMBDA rest : [q |-> Append(rest.q, cur \div k), r |-> rest.r],
                     BigDivStep(n, k, j, cur % k)),
             r * Base + n[i], i - 1)

BigDivSmall(n, k) ==
  Eval2(LAMBDA v, w :
          Eval1(LAMBDA d : [q |-> BigNorm(d.q), r |-> d.r], BigDivStep(v, w, Len(v), 0)),
        n, k)

RECURSIVE BigAddFrom(_, _, _, _)
BigAddFrom(a, b, i, carry) ==
  IF i > Len(a) /\ i > Len(b) THEN (IF carry = 0 THEN <<>> ELSE <<carry>>)
  ELSE Eval2(LAMBDA cur, j : <<cur % Base>> \o BigAddFrom(a, b, j, cur \div Base),
             (IF i > Len(a) THEN 0 ELSE a[i]) + (IF i > Len(b) THEN 0 ELSE b[i]) + carry,
             i + 1)

BigAdd(a, b) == Eval2(LAMBDA v, w : BigNorm(BigAddFrom(v, w, 1, 0)), a, b)

Zeros(q) == [i \in 1..q |-> 0]

BigShl(n, s) ==
  Eval2(LAMBDA v, t :
          IF v = <<>> THEN <<>>
          ELSE IF t % LimbBits = 0 THEN Zeros(t \div LimbBits) \o v
          ELSE Zeros(t \div LimbBits) \o BigMulSmall(v, Pow2(t % LimbBits)),
        n, s)

\* n = q * 2^s + rest; sticky tells whether rest is non-zero.
BigShr(n, s) ==
  Eval2(LAMBDA v, drop :
          Eval1(LAMBDA d :
                  [q |-> d.q,
                   sticky |-> d.r # 0 \/ \E i \in 1..drop : i <= Len(v) /\ v[i] # 0],
                BigDivSmall(IF drop >= Len(v) THEN <<>> ELSE SubSeq(v, drop + 1, Len(v)),
                            Pow2(s % LimbBits))),
        n, s \div LimbBits)

RECURSIVE LimbLen(_)
LimbLen(x) == IF x = 0 THEN 0 ELSE 1 + LimbLen(x \div 2)

BitLen(n) ==
  Eval1(LAMBDA v : IF v = <<>> THEN 0 ELSE LimbBits * (Len(v) - 1) + LimbLen(v[Len(v)]), n)

\* -1, 0, 1 as a < b, a = b, a > b (both normalised).
RECURSIVE BigCmpFrom(_, _, _)
BigCmpFrom(a, b, i) ==
  IF i = 0 THEN 0
  ELSE IF a[i] < b[i] THEN -1
  ELSE IF a[i] > b[i] THEN 1
  ELSE BigCmpFrom(a, b, i - 1)

BigCmp(a, b) ==
  IF Len(a) < Len(b) THEN -1
  ELSE IF Len(a) > Len(b) THEN 1
  ELSE BigCmpFrom(a, b, Len(a))

\* The rounding step on the quotient `half.q` with guard bit `half.r`.
RoundHalf(half, inexact, e) ==
  Eval1(LAMBDA q :
          IF BitLen(q) > MantBits
          THEN [m |-> BigDivSmall(q, 2).q, e |-> e + 1]
          ELSE [m |-> q, e |-> e],
        IF half.r = 1 /\ (inexact \/ half.q[1] % 2 = 1)
        THEN BigAdd(half.q, <<1>>) ELSE half.q)

\* Round (n + delta) * 2^e, 0 <= delta < 1 and delta > 0 iff sticky, to the
\* nearest double, ties to even (IEEE 754 default rounding).
RoundToDouble(n, e, sticky) ==
  Eval3(LAMBDA v, x, len :
          IF len <= MantBits
          THEN [m |-> BigShl(v, MantBits - len), e |-> x - (MantBits - len)]
          ELSE Eval1(LAMBDA sh :
                       RoundHalf(BigDivSmall(sh.q, 2), sh.sticky \/ sticky,
                                 x + (len - MantBits)),
                     BigShr(v, len - MantBits - 1)),
        n, e, BitLen(n))

DivScale == 75

\* a / b for positive integers a, b < 2^15 (Polars true division).
FDivInts(a, b) ==
  Eval1(LAMBDA d : RoundToDouble(d.q, 0 - DivScale, d.r # 0),
        BigDivSmall(BigShl(BigFromInt(a), DivScale), b))

\* x * k for a double x and a small positive integer k.
FMulInt(x, k) == Eval1(LAMBDA v : RoundToDouble(BigMulSmall(v.m, k), v.e, FALSE), x)

\* x / k for a double x and a small positive integer k.
FDivInt(x, k) ==
  Eval2(LAMBDA v, d : RoundToDouble(d.q, v.e - LimbBits, d.r # 0),
        x, BigDivSmall(BigShl(x.m, LimbBits), k))

FAdd(x, y) ==
  Eval3(LAMBDA v, w, emin :
          RoundToDouble(BigAdd(BigShl(v.m, v.e - emin), BigShl(w.m, w.e - emin)),
                        emin, FALSE),
        x, y, IF x.e < y.e THEN x.e ELSE y.e)

FCmp(x, y) ==
  Eval2(LAMBDA v, w :
          IF v.e < w.e THEN -1 ELSE IF v.e > w.e THEN 1 ELSE BigCmp(v.m, w.m),
        x, y)

FGe(x, y) == FCmp(x, y) >= 0
FLe(x, y) == FCmp(x, y) <= 0

\* The double nearest 0.95: 0x3FEE666666666666.
target_coverage == [m |-> <<26214, 19660, 6553, 243>>, e |-> -53]

(***************************************************************************)
(* Small helpers.                                                          *)
(***************************************************************************)
\* Python's None in a numeric column or option, and in a string column.
None == -1
Null == "null"

RECURSIVE SumTo(_, _)
SumTo(s, n) == IF n = 0 THEN 0 ELSE s[n] + SumTo(s, n - 1)

SumSeq(s) == Eval1(LAMBDA v : SumTo(v, Len(v)), s)

\* round(num / den, 2) in hundredths, round-half-to-even (Python round on
\* the float, numpy mean/sum of integer seconds); num >= 0, den > 0.
Round2(num, den) ==
  Eval2(LAMBDA q, r : IF 2 * r > den \/ (2 * r = den /\ q % 2 = 1) THEN q + 1 ELSE q,
        (100 * num) \div den, (100 * num) % den)

\* All enumerations of the finite set S as a sequence without repetition.
Enumerations(S) ==
  {f \in [1..Cardinality(S) -> S] : \A i, j \in 1..Cardinality(S) : i # j => f[i] # f[j]}

(***************************************************************************)
(* get_variants_logic, step 4: the 95% Pareto cut (lines 93-117).          *)
(***************************************************************************)
\* variants_df.sort('Frequency', descending=True) on the rows of an
\* unordered group_by: any enumeration with non-increasing Frequency (the
\* sort is not order-maintaining, the group order is unspecified).
SortByFrequencyDesc(rows) ==
  {f \in Enumerations(rows) :
     \A i \in 1..(Len(f) - 1) : f[i].Frequency >= f[i + 1].Frequency}

total_cases(df) == SumSeq([i \in 1..Len(df) |-> df[i].Frequency])

\* (Frequency / total_cases * 100), Float64, for every row.
Percentages(df) ==
  Eval1(LAMBDA total : [i \in 1..Len(df) |-> FMulInt(FDivInts(df[i].Frequency, total), 100)],
        total_cases(df))

\* Percentage.cum_sum(): sequential Float64 accumulation.
RECURSIVE CumSum(_, _)
CumSum(pct, n) ==
  IF n = 1 THEN <<pct[1]>>
  ELSE Eval1(LAMBDA prev : Append(prev, FAdd(prev[n - 1], pct[n])), CumSum(pct, n - 1))

WithCoverage(df) ==
  Eval1(LAMBDA pct :
          Eval1(LAMBDA cum :
                  [i \in 1..Len(df) |->
                     [Variant_Path     |-> df[i].Variant_Path,
                      Frequency        |-> df[i].Frequency,
                      Times_List       |-> df[i].Times_List,
                      True_Start_Count |-> df[i].True_Start_Count,
                      True_End_Count   |-> df[i].True_End_Count,
                      Percentage       |-> pct[i],
                      cum_coverage     |-> FDivInt(cum[i], 100)]],
                CumSum(pct, Len(df))),
        Percentages(df))

RECURSIVE FilterSeq(_, _)
FilterSeq(s, keep) ==
  IF s = <<>> THEN <<>>
  ELSE (IF keep[1] THEN <<s[1]>> ELSE <<>>) \o FilterSeq(Tail(s), Tail(keep))

\* df: variants_df with Percentage and cum_coverage, sorted.
ParetoFilter(df0) ==
  Eval1(LAMBDA df :
          Eval1(LAMBDA crossing :
                  IF crossing # {}
                  THEN Eval1(LAMBDA limit_val :
                               FilterSeq(df, [i \in 1..Len(df) |->
                                                FLe(df[i].cum_coverage, limit_val)]),
                             df[CHOOSE i \in crossing : \A j \in crossing : i <= j].cum_coverage)
                  ELSE df,
                {i \in 1..Len(df) : FGe(df[i].cum_coverage, target_coverage)}),
        df0)

(***************************************************************************)
(* get_variants_logic, step 5: calc_timings (lines 123-148).               *)
(***************************************************************************)
\* func(arr, axis=0) for func = np.sum, per step of the path.
ColumnSum(lst, j) == SumSeq([c \in 1..Len(lst) |-> lst[c][j]])

\* calc_timings(..., np.mean) for one variant, hundredths of a second.
AvgTimings(lst0) ==
  Eval1(LAMBDA lst :
          IF lst = <<>> THEN <<>>
          ELSE [j \in 1..Len(lst[1]) |-> Round2(ColumnSum(lst, j), Len(lst))],
        lst0)

\* calc_timings(..., np.sum) for one variant, hundredths of a second.
TotalTimings(lst0) ==
  Eval1(LAMBDA lst :
          IF lst = <<>> THEN <<>>
          ELSE [j \in 1..Len(lst[1]) |-> Round2(ColumnSum(lst, j), 1)],
        lst0)

WithTimings(pv) ==
  [i \in 1..Len(pv) |->
     [Variant_Path     |-> pv[i].Variant_Path,
      Frequency        |-> pv[i].Frequency,
      True_Start_Count |-> pv[i].True_Start_Count,
      True_End_Count   |-> pv[i].True_End_Count,
      Percentage       |-> pv[i].Percentage,
      cum_coverage     |-> pv[i].cum_coverage,
      Avg_Timings      |-> AvgTimings(pv[i].Times_List),
      Total_Timings    |-> TotalTimings(pv[i].Times_List)]]

(***************************************************************************)
(* get_variants_logic, step 6: boundary nodes (lines 150-184).             *)
(* A dict is a sequence of [node, count] in insertion order.               *)
(***************************************************************************)
DictHas(d, node) == \E i \in 1..Len(d) : d[i].node = node

\* d[node] = d.get(node, 0) + c
DictAdd(d0, node, c) ==
  Eval1(LAMBDA d :
          IF DictHas(d, node)
          THEN [i \in 1..Len(d) |->
                  IF d[i].node = node
                  THEN [node |-> node, count |-> d[i].count + c] ELSE d[i]]
          ELSE Append(d, [node |-> node, count |-> c]),
        d0)

RECURSIVE StartCounts(_, _)
StartCounts(pv, n) ==
  IF n = 0 THEN <<>>
  ELSE Eval2(LAMBDA d, row :
               IF Len(row.Variant_Path) > 0 /\ row.True_Start_Count > 0
               THEN DictAdd(d, row.Variant_Path[1], row.True_Start_Count)
               ELSE d,
             StartCounts(pv, n - 1), pv[n])

RECURSIVE EndCounts(_, _)
EndCounts(pv, n) ==
  IF n = 0 THEN <<>>
  ELSE Eval2(LAMBDA d, row :
               IF Len(row.Variant_Path) > 0 /\ row.True_End_Count > 0
               THEN DictAdd(d, row.Variant_Path[Len(row.Variant_Path)], row.True_End_Count)
               ELSE d,
             EndCounts(pv, n - 1), pv[n])

\* sorted(items, key=count, reverse=True): stable, equal counts keep
\* their insertion order.  x goes behind every item whose count is >= its own.
InsertDesc(s0, x) ==
  Eval1(LAMBDA s :
          Eval1(LAMBDA k : SubSeq(s, 1, k) \o <<x>> \o SubSeq(s, k + 1, Len(s)),
                Cardinality({i \in 1..Len(s) : s[i].count >= x.count})),
        s0)

RECURSIVE SortedNodes(_, _)
SortedNodes(d, n) ==
  IF n = 0 THEN <<>> ELSE InsertDesc(SortedNodes(d, n - 1), d[n])

coverage_threshold_num == 9
coverage_threshold_den == 10

\* The loop with a strict comparison: it goes one node too far when a prefix
\* holds exactly 90% of the total.
RECURSIVE TopLoopStrict(_, _, _, _)
TopLoopStrict(sorted_nodes, i, current_sum, total_count) ==
  IF i > Len(sorted_nodes) THEN <<>>
  ELSE Eval2(LAMBDA s, j :
               IF coverage_threshold_den * s > coverage_threshold_num * total_count
               THEN <<sorted_nodes[i].node>>
               ELSE <<sorted_nodes[i].node>> \o TopLoopStrict(sorted_nodes, j, s, total_count),
             current_sum + sorted_nodes[i].count, i + 1)

\* The for loop of get_top_nodes from index i on.  current_sum / total_count
\* is a correctly rounded quotient of two integers and 0.90 the double
\* nearest 9/10, so the comparison is the exact one for these magnitudes.
RECURSIVE TopLoop(_, _, _, _)
TopLoop(sorted_nodes, i, current_sum, total_count) ==
  IF i > Len(sorted_nodes) THEN <<>>
  ELSE Eval2(LAMBDA s, j :
               IF coverage_threshold_den * s >= coverage_threshold_num * total_count
               THEN <<sorted_nodes[i].node>>
               ELSE <<sorted_nodes[i].node>> \o TopLoop(sorted_nodes, j, s, total_count),
             current_sum + sorted_nodes[i].count, i + 1)

get_top_nodes(counts_dict0) ==
  Eval1(LAMBDA counts_dict :
    IF counts_dict = <<>> THEN <<>>
    ELSE Eval2(LAMBDA sorted_nodes, total_count :
                 IF total_count = 0 THEN <<>>
                 ELSE Eval1(LAMBDA selected_nodes :
                              IF selected_nodes = <<>> /\ sorted_nodes # <<>>
                              THEN <<sorted_nodes[1].node>>
                              ELSE selected_nodes,
                            TopLoop(sorted_nodes, 1, 0, total_count)),
               SortedNodes(counts_dict, Len(counts_dict)),
               SumSeq([i \in 1..Len(counts_dict) |-> counts_dict[i].count])),
    counts_dict0)

\* Lines 90-189 on the collected variants_df, given as the sequence `df`
\* the Frequency sort produced.
ParetoAndNodes(df) ==
  IF df = <<>>
  THEN [variants |-> <<>>, start_counts |-> <<>>, end_counts |-> <<>>,
        start_nodes |-> <<>>, end_nodes |-> <<>>]
  ELSE Eval1(LAMBDA pareto_variants :
               Eval2(LAMBDA sc, ec :
                       [variants |-> pareto_variants,
                        start_counts |-> sc, end_counts |-> ec,
                        start_nodes |-> get_top_nodes(sc), end_nodes |-> get_top_nodes(ec)],
                     StartCounts(pareto_variants, Len(pareto_variants)),
                     EndCounts(pareto_variants, Len(pareto_variants))),
             WithTimings(ParetoFilter(WithCoverage(df))))

(***************************************************************************)
(* process_data, lines 198-215: sort, window columns, date filters.        *)
(* A row of the loaded table is [CaseID, Activity, Timestamp].             *)
(***************************************************************************)
KeyLe(r1, r2) ==
  \/ r1.CaseID < r2.CaseID
  \/ r1.CaseID = r2.CaseID /\ r1.Timestamp <= r2.Timestamp

\* Every place x can take in the sorted sequence s.
Inserts(s, x) ==
  {SubSeq(s, 1, k) \o <<x>> \o SubSeq(s, k + 1, Len(s)) :
     k \in {j \in 0..Len(s) : /\ \A i \in 1..j : KeyLe(s[i], x)
                              /\ \A i \in (j + 1)..Len(s) : KeyLe(x, s[i])}}

\* lf.sort(['CaseID', 'Timestamp']): the sort does not maintain the order of
\* rows with equal keys, so every sorted arrangement is a possible result.
RECURSIVE SortFrames(_, _)
SortFrames(rows, n) ==
  IF n = 0 THEN {<<>>}
  ELSE UNION {Inserts(s, rows[n]) : s \in SortFrames(rows, n - 1)}

\* Timestamp.rank('ordinal').over('CaseID'): rank within the case, equal
\* timestamps ranked in order of appearance.
EventRank(f, i) ==
  1 + Cardinality({j \in 1..Len(f) :
                     /\ f[j].CaseID = f[i].CaseID
                     /\ \/ f[j].Timestamp < f[i].Timestamp
                        \/ f[j].Timestamp = f[i].Timestamp /\ j < i})

\* Timestamp.min().over('CaseID')
CaseStartTime(f, i) ==
  LET ts == {f[j].Timestamp : j \in {k \in 1..Len(f) : f[k].CaseID = f[i].CaseID}}
  IN CHOOSE t \in ts : \A u \in ts : t <= u

\* Lines 201-204.
WithRank(f) ==
  [i \in 1..Len(f) |->
     [CaseID |-> f[i].CaseID, Activity |-> f[i].Activity, Timestamp |-> f[i].Timestamp,
      Event_Rank |-> EventRank(f, i), Case_Start_Time |-> CaseStartTime(f, i)]]

\* Event_Rank.max().over('CaseID')
MaxRank(f, i) ==
  LET rs == {f[j].Event_Rank : j \in {k \in 1..Len(f) : f[k].CaseID = f[i].CaseID}}
  IN CHOOSE r \in rs : \A u \in rs : r >= u

\* Lines 206-209.
WithMaxRank(f) ==
  [i \in 1..Len(f) |->
     [CaseID |-> f[i].CaseID, Activity |-> f[i].Activity, Timestamp |-> f[i].Timestamp,
      Event_Rank |-> f[i].Event_Rank, Case_Start_Time |-> f[i].Case_Start_Time,
      Max_Rank |-> MaxRank(f, i),
      Seconds_From_Start |-> f[i].Timestamp - f[i].Case_Start_Time]]

\* The frame after the window columns, for the sorted frame f.
IndexFrame(f) == Eval1(LAMBDA g : WithMaxRank(g), WithRank(f))

\* Lines 212-215: the date filters, applied to the indexed frame.
DateFilter(f, a) ==
  FilterSeq(f, [i \in 1..Len(f) |->
                  /\ (a.start_date # None => f[i].Timestamp >= a.start_date)
                  /\ (a.end_date # None => f[i].Timestamp <= a.end_date)])

(***************************************************************************)
(* get_variants_logic, steps 1-3 (lines 61-88).                            *)
(***************************************************************************)
CaseIDs(df) == {df[i].CaseID : i \in 1..Len(df)}

CaseRows(df, c) == FilterSeq(df, [i \in 1..Len(df) |-> df[i].CaseID = c])

\* One row of cases_agg.
CaseAgg(df, c) ==
  Eval1(LAMBDA rows :
          [CaseID        |-> c,
           Variant_Path  |-> [i \in 1..Len(rows) |-> rows[i].Activity],
           Times_List    |-> [i \in 1..Len(rows) |-> rows[i].Seconds_From_Start],
           Is_True_Start |-> IF rows[1].Event_Rank = 1 THEN 1 ELSE 0,
           Is_True_End   |-> IF rows[Len(rows)].Event_Rank = rows[1].Max_Rank THEN 1 ELSE 0],
        CaseRows(df, c))

cases_agg(df) == {CaseAgg(df, c) : c \in CaseIDs(df)}

\* The members of the finite set of records S in ascending CaseID order.
RECURSIVE ByCaseID(_)
ByCaseID(S) ==
  IF S = {} THEN <<>>
  ELSE LET x == CHOOSE y \in S : \A z \in S : y.CaseID <= z.CaseID
       IN <<x>> \o ByCaseID(S \ {x})

\* One row of variants_agg.  The order of the lists inside Times_List is the
\* order in which the group's cases are met; the column sums and means taken
\* from it do not depend on that order.
VariantAgg(cases, path) ==
  Eval1(LAMBDA grp :
          [Variant_Path     |-> path,
           Frequency        |-> Len(grp),
           Times_List       |-> [i \in 1..Len(grp) |-> grp[i].Times_List],
           True_Start_Count |-> SumSeq([i \in 1..Len(grp) |-> grp[i].Is_True_Start]),
           True_End_Count   |-> SumSeq([i \in 1..Len(grp) |-> grp[i].Is_True_End])],
        ByCaseID({c \in cases : c.Variant_Path = path}))

\* Lines 61-88: the collected variants_df, an unordered set of rows.
VariantsAgg(df, min_cases) ==
  Eval1(LAMBDA cases :
          {v \in {VariantAgg(cases, p) : p \in {c.Variant_Path : c \in cases}} :
             min_cases # None => v.Frequency >= min_cases},
        cases_agg(df))

(***************************************************************************)
(* process_data, branch 2: the edges (lines 232-304).                      *)
(***************************************************************************)
\* A shift over the whole frame, which pairs the last event of a case with
\* the first event of the next case.
ShiftWholeFrame(df, i) == IF i < Len(df) THEN i + 1 ELSE 0

\* shift(-1).over('CaseID'): index of the next row of the same case, 0 if none.
ShiftOver(df, i) ==
  LET later == {j \in (i + 1)..Len(df) : df[j].CaseID = df[i].CaseID}
  IN IF later = {} THEN 0 ELSE CHOOSE j \in later : \A k \in later : j <= k

\* Lines 234-245: one row per event that has a successor in its case.
Transitions(df) ==
  Eval1(LAMBDA all :
          FilterSeq(all, [i \in 1..Len(all) |-> all[i].Target_Activity # Null]),
        [i \in 1..Len(df) |->
           Eval1(LAMBDA j :
                   [CaseID           |-> df[i].CaseID,
                    Event_Rank       |-> df[i].Event_Rank,
                    Activity         |-> df[i].Activity,
                    Timestamp        |-> df[i].Timestamp,
                    Target_Activity  |-> IF j = 0 THEN Null ELSE df[j].Activity,
                    Target_Timestamp |-> IF j = 0 THEN None ELSE df[j].Timestamp,
                    Duration_Seconds |->
                      IF j = 0 THEN None ELSE df[j].Timestamp - df[i].Timestamp],
                 ShiftOver(df, i))])

RECURSIVE GCD(_, _)
GCD(a, b) == IF b = 0 THEN a ELSE GCD(b, a % b)

\* The fraction num / den in lowest terms (den > 0, num >= 0).
Frac(num, den) ==
  Eval1(LAMBDA g : [num |-> num \div g, den |-> den \div g], GCD(num, den))

\* A mean in whole seconds, the quotient rounded down.
MeanDurationFloor(total, count) == [num |-> total \div count, den |-> 1]

\* Duration_Seconds.mean() of a group.
MeanDuration(total, count) == Frac(total, count)

\* Lines 248-252: one row per (Activity, Target_Activity).
EdgeAgg(edges, src, tgt) ==
  Eval1(LAMBDA grp :
          Eval1(LAMBDA total :
                  [Activity               |-> src,
                   Target_Activity        |-> tgt,
                   Case_Count             |-> Len(grp),
                   Total_Duration_Seconds |-> total,
                   Mean_Duration_Seconds  |-> MeanDuration(total, Len(grp))],
                SumSeq([i \in 1..Len(grp) |-> grp[i].Duration_Seconds])),
        FilterSeq(edges, [i \in 1..Len(edges) |->
                            edges[i].Activity = src /\ edges[i].Target_Activity = tgt]))

EdgeMetrics(edges) ==
  {EdgeAgg(edges, k[1], k[2]) :
     k \in {<<edges[i].Activity, edges[i].Target_Activity>> : i \in 1..Len(edges)}}

\* Lines 255-262: the numeric filters, inclusive bounds.
EdgeFilter(em, a) ==
  {e \in em :
     /\ (a.min_cases # None => e.Case_Count >= a.min_cases)
     /\ (a.max_cases # None => e.Case_Count <= a.max_cases)
     /\ (a.min_mean_time # None =>
           e.Mean_Duration_Seconds.num >= a.min_mean_time * e.Mean_Duration_Seconds.den)
     /\ (a.max_mean_time # None =>
           e.Mean_Duration_Seconds.num <= a.max_mean_time * e.Mean_Duration_Seconds.den)}

SecondsPerDay == 86400

\* format_seconds_to_days_expr on a fraction of seconds: "0s" for zero,
\* otherwise the number of days rounded to 2 decimals (hundredths here).
format_seconds_to_days_expr(x) ==
  IF x.num = 0 THEN [text |-> "0s"]
  ELSE [text |-> "days", hundredths |-> Round2(x.num, x.den * SecondsPerDay)]

divisor_map(u) ==
  CASE u = "s" -> 1 [] u = "m" -> 60 [] u = "h" -> 3600
    [] u = "d" -> SecondsPerDay [] u = "w" -> 604800 [] OTHER -> 1

\* Lines 266-302: tooltips, weight, label and the final column selection.
FinalRow(e, a) ==
  [Source_Activity       |-> e.Activity,
   Target_Activity       |-> e.Target_Activity,
   Mean_Duration_Seconds |-> e.Mean_Duration_Seconds,
   Tooltip_Total_Time    |-> format_seconds_to_days_expr(Frac(e.Total_Duration_Seconds, 1)),
   Tooltip_Mean_Time     |-> format_seconds_to_days_expr(e.Mean_Duration_Seconds),
   Weight_Value          |->
     IF a.weight_metric = "mean_time"
     THEN Frac(e.Mean_Duration_Seconds.num,
               e.Mean_Duration_Seconds.den * divisor_map(a.time_unit))
     ELSE Frac(e.Case_Count, 1),
   Edge_Label            |->
     IF a.weight_metric = "mean_time"
     THEN [hundredths |-> Round2(e.Mean_Duration_Seconds.num,
                                 e.Mean_Duration_Seconds.den * divisor_map(a.time_unit)),
           unit |-> a.time_unit]
     ELSE [count |-> e.Case_Count]]

FinalRows(em, a) == {FinalRow(e, a) : e \in EdgeFilter(em, a)}

(***************************************************************************)
(* State.                                                                  *)
(***************************************************************************)
VARIABLES
  pc,            \* position of the invocation
  log,           \* the loaded event table, rows [CaseID, Activity, Timestamp]
  args,          \* the parsed options
  lf,            \* the sorted frame with its window columns (line 209)
  df_base,       \* the date-filtered frame handed to both branches (line 226)
  variants_df,   \* the collected variants_agg (line 88), an unordered set of rows
  variants,      \* pareto_variants.to_dicts()
  start_counts,  \* the start mapping of the run
  end_counts,    \* the end mapping of the run
  start_nodes,   \* startActivities
  end_nodes,     \* endActivities
  df_edges,      \* the transitions (line 245)
  edge_metrics,  \* the aggregated edges before the numeric filters (line 252)
  graphData,     \* the edges returned
  exit_code,     \* 0 once the JSON document is printed, 1 after an exception
  rerun          \* result of running the variant stage again on the same table

vars == <<pc, log, args, lf, df_base, variants_df, variants, start_counts,
          end_counts, start_nodes, end_nodes, df_edges, edge_metrics, graphData,
          exit_code, rerun>>

\* The options of an invocation without optional arguments (lines 308-317).
NoArgs ==
  [start_date |-> None, end_date |-> None, min_cases |-> None, max_cases |-> None,
   min_mean_time |-> None, max_mean_time |-> None,
   weight_metric |-> "cases", time_unit |-> "d"]

(***************************************************************************)
(* The bounded event logs.                                                 *)
(***************************************************************************)
NumCases == 3
MaxRows == 4
Activities == <<"X", "Y">>

ActRank(act) == CHOOSE i \in 1..Len(Activities) : Activities[i] = act

Events(times) ==
  [CaseID : 1..NumCases, Activity : {Activities[i] : i \in 1..Len(Activities)},
   Timestamp : times]

CaseSize(l, c) == Cardinality({i \in 1..Len(l) : l[i].CaseID = c})

\* Logs are taken up to the order of their rows and the naming of their
\* cases, neither of which the pipeline can observe: the rows of a case are
\* adjacent and listed latest first, cases are numbered from 1 and no case
\* is longer than the one before it.  The input is therefore never in the
\* order the pipeline sorts it into, unless a case has a single event.
CanExtend(l, e, ties) ==
  IF l = <<>> THEN e.CaseID = 1
  ELSE LET last == l[Len(l)]
       IN \/ e.CaseID = last.CaseID + 1
          \/ /\ e.CaseID = last.CaseID
             /\ \/ e.Timestamp < last.Timestamp
                \/ /\ ties
                   /\ e.Timestamp = last.Timestamp
                   /\ ActRank(e.Activity) <= ActRank(last.Activity)
             /\ (e.CaseID > 1 => CaseSize(l, e.CaseID) < CaseSize(l, e.CaseID - 1))

RECURSIVE LogsOfLen(_, _, _)
LogsOfLen(times, n, ties) ==
  IF n = 0 THEN {<<>>}
  ELSE UNION {{Append(l, e) : e \in {x \in Events(times) : CanExtend(l, x, ties)}} :
                l \in LogsOfLen(times, n - 1, ties)}

\* The logs of at most maxrows rows; with ties = FALSE the events of a case
\* have distinct timestamps.
Logs(times, maxrows, ties) == UNION {LogsOfLen(times, n, ties) : n \in 0..maxrows}

(***************************************************************************)
(* __main__ (lines 306-337) with process_data (lines 191-304).             *)
(***************************************************************************)
\* A floor taken from an option of the edge filters.
VariantFloorMeanTime(a) == a.min_mean_time

\* The floor handed to get_variants_logic (line 228).
VariantFloor(a) == a.min_cases

\* One invocation with the options a: every outcome the unordered sort and
\* group_by allow.  No step of process_data raises on a well-formed table,
\* so the JSON document is printed and the process ends normally.
Invoke(a) ==
  \E f \in SortFrames(log, Len(log)) :
  \E ix \in {IndexFrame(f)} :
  \E base \in {DateFilter(ix, a)} :
  \E vdf \in {VariantsAgg(base, VariantFloor(a))} :
  \E df \in SortByFrequencyDesc(vdf) :
  \E r \in {ParetoAndNodes(df)} :
  \E edges \in {Transitions(base)} :
  \E em \in {EdgeMetrics(edges)} :
    /\ args' = a
    /\ lf' = ix
    /\ df_base' = base
    /\ variants_df' = vdf
    /\ variants' = r.variants
    /\ start_counts' = r.start_counts
    /\ end_counts' = r.end_counts
    /\ start_nodes' = r.start_nodes
    /\ end_nodes' = r.end_nodes
    /\ df_edges' = edges
    /\ edge_metrics' = em
    /\ graphData' = FinalRows(em, a)
    /\ exit_code' = 0
    /\ UNCHANGED <<log, rerun>>

\* The first invocation, with the options given on the command line.
Main ==
  /\ pc = "start"
  /\ Invoke(args)
  /\ pc' = "done"

OptionValues ==
  [min_cases |-> {None, 2}, max_cases |-> {None, 1},
   min_mean_time |-> {None, 10}, max_mean_time |-> {None, 5},
   weight_metric |-> {"cases", "mean_time"}, time_unit |-> {"d", "s"}]

\* The program is started again on the same file with one option changed.
Reinvoke ==
  /\ pc = "done"
  /\ \E k \in DOMAIN OptionValues :
       \E v \in OptionValues[k] \ {args[k]} :
          Invoke([args EXCEPT ![k] = v])
  /\ pc' = "again"

Times == {0, 10, 20}
DateValues == {None, 10}

InitLog(logs, argset) ==
  /\ pc = "start"
  /\ log \in logs
  /\ args \in argset
  /\ lf = <<>>
  /\ df_base = <<>>
  /\ variants_df = {}
  /\ variants = <<>>
  /\ start_counts = <<>>
  /\ end_counts = <<>>
  /\ start_nodes = <<>>
  /\ end_nodes = <<>>
  /\ df_edges = <<>>
  /\ edge_metrics = {}
  /\ graphData = {}
  /\ exit_code = None
  /\ rerun = [variants |-> <<>>, start_nodes |-> <<>>, end_nodes |-> <<>>]

\* Invocations with date bounds and a variant floor.
Init ==
  InitLog(Logs(Times, MaxRows, TRUE),
          {[NoArgs EXCEPT !.start_date = s, !.end_date = e] : s, e \in DateValues})

Next == Main

Spec == Init /\ [][Next]_vars

\* Repeated invocations that differ in the numeric filters and the weight,
\* with and without a startDate bound.
TimesOptions == {0, 10}
MaxRowsOptions == 4

InitOptions ==
  InitLog(Logs(TimesOptions, MaxRowsOptions, FALSE),
          {[NoArgs EXCEPT !.start_date = s, !.min_cases = lo, !.max_mean_time = hi] :
             s \in DateValues, lo \in OptionValues.min_cases,
             hi \in OptionValues.max_mean_time})

NextOptions == Main \/ Reinvoke

SpecOptions == InitOptions /\ [][NextOptions]_vars

(***************************************************************************)
(* The variant stage on its own: the collected variants_df is the input.   *)
(***************************************************************************)
MaxFreq == 40

VariantPaths == <<(<<"X", "Y">>), (<<"Y", "Z">>), (<<"Z", "Y">>)>>

\* f cases of one variant: every case has the timings 0, 10 * position.
VariantRow(k, f, truncated) ==
  [Variant_Path     |-> VariantPaths[k],
   Frequency        |-> f,
   Times_List       |-> [c \in 1..f |-> <<0, 10 * k>>],
   True_Start_Count |-> IF truncated THEN 0 ELSE f,
   True_End_Count   |-> f]

\* Tables of one to three variants with non-increasing frequencies, and the
\* tables of one variant whose cases all lost their first event to a
\* startDate bound (True_Start_Count = 0).
VariantTables ==
  {{VariantRow(k, f[k], FALSE) : k \in {j \in 1..3 : f[j] > 0}} :
     f \in {g \in [1..3 -> 0..MaxFreq] : g[1] >= 1 /\ g[1] >= g[2] /\ g[2] >= g[3]}}
  \cup {{VariantRow(1, f, TRUE)} : f \in 1..MaxFreq}

InitPareto ==
  /\ pc = "collected"
  /\ variants_df \in VariantTables
  /\ log = <<>>
  /\ args = NoArgs
  /\ lf = <<>>
  /\ df_base = <<>>
  /\ exit_code = None
  /\ variants = <<>>
  /\ start_counts = <<>>
  /\ end_counts = <<>>
  /\ start_nodes = <<>>
  /\ end_nodes = <<>>
  /\ df_edges = <<>>
  /\ edge_metrics = {}
  /\ graphData = {}
  /\ rerun = [variants |-> <<>>, start_nodes |-> <<>>, end_nodes |-> <<>>]

\* get_variants_logic from line 90 on.
ParetoStep ==
  /\ pc = "collected"
  /\ \E df \in SortByFrequencyDesc(variants_df) :
       \E r \in {ParetoAndNodes(df)} :
          /\ variants' = r.variants
          /\ start_counts' = r.start_counts
          /\ end_counts' = r.end_counts
          /\ start_nodes' = r.start_nodes
          /\ end_nodes' = r.end_nodes
  /\ pc' = "reduced"
  /\ UNCHANGED <<log, args, lf, df_base, variants_df, df_edges, edge_metrics,
                 graphData, exit_code, rerun>>

\* The same lines run a second time on the same variants_df.
ParetoRerun ==
  /\ pc = "reduced"
  /\ \E df \in SortByFrequencyDesc(variants_df) :
       \E r \in {ParetoAndNodes(df)} :
          rerun' = [variants |-> r.variants, start_nodes |-> r.start_nodes,
                    end_nodes |-> r.end_nodes]
  /\ pc' = "rerun"
  /\ UNCHANGED <<log, args, lf, df_base, variants_df, variants, start_counts,
                 end_counts, start_nodes, end_nodes, df_edges, edge_metrics, graphData,
                 exit_code>>

NextPareto == ParetoStep \/ ParetoRerun

SpecPareto == InitPareto /\ [][NextPareto]_vars

(***************************************************************************)
(* The claims about the variant stage, checked under SpecPareto.           *)
(***************************************************************************)
\* The sum of the function f over the finite set S.
RECURSIVE SetSum(_, _)
SetSum(S, f) ==
  IF S = {} THEN 0
  ELSE LET x == CHOOSE y \in S : TRUE IN f[x] + SetSum(S \ {x}, f)

TableTotal(table) == SetSum(table, [v \in table |-> v.Frequency])

\* The Frequency summed over the first n rows of vs.
Covered(vs, n) == SetSum(1..n, [i \in 1..n |-> vs[i].Frequency])

\* vs lists rows of the table in an order of non-increasing Frequency that
\* can be continued to the whole table: a prefix of the sorted variants.
IsFrequencyPrefix(vs, table) ==
  /\ \A i \in 1..Len(vs) :
       \E v \in table : v.Variant_Path = vs[i].Variant_Path /\ v.Frequency = vs[i].Frequency
  /\ \A i, j \in 1..Len(vs) : i < j =>
       /\ vs[i].Variant_Path # vs[j].Variant_Path
       /\ vs[i].Frequency >= vs[j].Frequency
  /\ \A v \in table :
       (\A i \in 1..Len(vs) : vs[i].Variant_Path # v.Variant_Path) =>
         \A i \in 1..Len(vs) : vs[i].Frequency >= v.Frequency

\* C1: for every non-empty variant table the returned variants are
\* non-empty, a prefix of the variants by Frequency descending, cover at
\* least 95% of the cases, and without their last variant cover strictly
\* less than 95% (coverage in exact arithmetic: sum of Frequency / total).
C1_ParetoMinimalPrefix ==
  (pc \in {"reduced", "rerun"} /\ variants_df # {}) =>
    /\ variants # <<>>
    /\ IsFrequencyPrefix(variants, variants_df)
    /\ 100 * Covered(variants, Len(variants)) >= 95 * TableTotal(variants_df)
    /\ 100 * Covered(variants, Len(variants) - 1) < 95 * TableTotal(variants_df)

\* The count of a node in a mapping.
CountOf(d, node) == d[CHOOSE i \in 1..Len(d) : d[i].node = node].count

CountSum(d, nodes, n) == SetSum(1..n, [i \in 1..n |-> CountOf(d, nodes[i])])

DictTotal(d) == SetSum(1..Len(d), [k \in 1..Len(d) |-> d[k].count])

\* nodes is the shortest prefix of the mapping's activities by count
\* descending that holds at least 90% of the total; the empty mapping gives
\* the empty list.
TopNodesOK(d, nodes) ==
  IF d = <<>> THEN nodes = <<>>
  ELSE /\ nodes # <<>>
       /\ \A i \in 1..Len(nodes) : DictHas(d, nodes[i])
       /\ \A i, j \in 1..Len(nodes) : i < j =>
            /\ nodes[i] # nodes[j]
            /\ CountOf(d, nodes[i]) >= CountOf(d, nodes[j])
       /\ \A k \in 1..Len(d) :
            (\A i \in 1..Len(nodes) : nodes[i] # d[k].node) =>
              \A i \in 1..Len(nodes) : CountOf(d, nodes[i]) >= d[k].count
       /\ 10 * CountSum(d, nodes, Len(nodes)) >= 9 * DictTotal(d)
       /\ 10 * CountSum(d, nodes, Len(nodes) - 1) < 9 * DictTotal(d)

\* C2: startActivities and endActivities are each the shortest prefix, by
\* count descending, of their mapping that holds at least 90% of the
\* mapping's total; an empty mapping gives an empty list.
C2_TopNodesShortestPrefix ==
  pc \in {"reduced", "rerun"} =>
    /\ TopNodesOK(start_counts, start_nodes)
    /\ TopNodesOK(end_counts, end_nodes)

\* C2, its case: a start mapping of three activities of which the two most
\* frequent are returned.
C2_ProperPrefixReached ==
  pc = "reduced" /\ Len(start_counts) = 3 /\ Len(start_nodes) = 2

\* A returned variant with the aggregates of the result document.
Aggregates(v) ==
  [Variant_Path |-> v.Variant_Path, Frequency |-> v.Frequency,
   True_Start_Count |-> v.True_Start_Count, True_End_Count |-> v.True_End_Count,
   Percentage |-> v.Percentage,
   Avg_Timings |-> v.Avg_Timings, Total_Timings |-> v.Total_Timings]

AggregateSet(vs) == {Aggregates(vs[i]) : i \in 1..Len(vs)}

Members(s) == {s[i] : i \in 1..Len(s)}

\* C7: two runs of the variant stage on the same table return the same set
\* of variants with their aggregates and the same start and end activities,
\* whatever the order in which the groups were enumerated.
C7_SameResultOnRerun ==
  pc = "rerun" =>
    /\ AggregateSet(rerun.variants) = AggregateSet(variants)
    /\ Members(rerun.start_nodes) = Members(start_nodes)
    /\ Members(rerun.end_nodes) = Members(end_nodes)

(***************************************************************************)
(* The claims about one invocation, checked under Spec.                    *)
(***************************************************************************)
\* The positions of the rows of case c in the frame df.
RowsOf(df, c) == {i \in 1..Len(df) : df[i].CaseID = c}

\* C3: in the frame handed to both branches, for any date options, the
\* Event_Rank values of the N remaining events of a case are exactly 1..N
\* and Max_Rank is N.
C3_RanksContiguousAfterDateFilter ==
  pc = "done" =>
    \A c \in CaseIDs(df_base) :
      /\ {df_base[i].Event_Rank : i \in RowsOf(df_base, c)}
           = 1..Cardinality(RowsOf(df_base, c))
      /\ \A i \in RowsOf(df_base, c) : df_base[i].Max_Rank = Cardinality(RowsOf(df_base, c))

\* The transition e pairs row i of the frame with the row right after it,
\* which belongs to the same case.
PairsWithSuccessor(e, df, i) ==
  /\ i < Len(df)
  /\ df[i].CaseID = e.CaseID /\ df[i + 1].CaseID = e.CaseID
  /\ df[i].Event_Rank = e.Event_Rank
  /\ df[i].Activity = e.Activity /\ df[i].Timestamp = e.Timestamp
  /\ df[i + 1].Activity = e.Target_Activity
  /\ df[i + 1].Timestamp = e.Target_Timestamp

\* C4: a case with N events after date filtering yields max(N - 1, 0)
\* transitions, each from an event to its immediate successor in the same
\* case, each with a duration of target minus source that is not negative.
C4_TransitionsPerCase ==
  pc = "done" =>
    /\ \A c \in 1..NumCases :
         Cardinality(RowsOf(df_edges, c))
           = IF RowsOf(df_base, c) = {} THEN 0 ELSE Cardinality(RowsOf(df_base, c)) - 1
    /\ \A k \in 1..Len(df_edges) :
         /\ \E i \in 1..Len(df_base) : PairsWithSuccessor(df_edges[k], df_base, i)
         /\ \A j \in 1..Len(df_edges) :
              (j # k /\ df_edges[j].CaseID = df_edges[k].CaseID) =>
                df_edges[j].Event_Rank # df_edges[k].Event_Rank
         /\ df_edges[k].Duration_Seconds
              = df_edges[k].Target_Timestamp - df_edges[k].Timestamp
         /\ df_edges[k].Duration_Seconds >= 0

\* C4, its case: a case of three events beside a case of one event.
C4_LongAndSingleCase ==
  /\ pc = "done"
  /\ Len(df_edges) = 2
  /\ \E c, d \in CaseIDs(df_base) :
       Cardinality(RowsOf(df_base, c)) = 3 /\ Cardinality(RowsOf(df_base, d)) = 1

\* The positions of the transitions from src to tgt.
PairRows(src, tgt) ==
  {k \in 1..Len(df_edges) :
     df_edges[k].Activity = src /\ df_edges[k].Target_Activity = tgt}

ActivitySet == {Activities[i] : i \in 1..Len(Activities)}

\* Case A = [(X, 0), (Y, 10)] and Case B = [(X, 0), (Y, 20)].
ScenarioLog ==
  <<[CaseID |-> 1, Activity |-> "Y", Timestamp |-> 10],
    [CaseID |-> 1, Activity |-> "X", Timestamp |-> 0],
    [CaseID |-> 2, Activity |-> "Y", Timestamp |-> 20],
    [CaseID |-> 2, Activity |-> "X", Timestamp |-> 0]>>

\* C5: before the numeric filters every pair of activities with a
\* transition has one edge whose Case_Count is the number of its
\* transitions, whose total is the sum of their durations and whose mean
\* times Case_Count is the total, and no other pair has an edge; the log of
\* Case A and Case B gives one edge X->Y with count 2, total 30, mean 15,
\* one variant [X, Y] with Frequency 2 and average timings [0, 15], start
\* activities [X] and end activities [Y].
C5_EdgeAggregation ==
  pc = "done" =>
    /\ \A src, tgt \in ActivitySet :
         IF PairRows(src, tgt) = {}
         THEN \A e \in edge_metrics : ~(e.Activity = src /\ e.Target_Activity = tgt)
         ELSE /\ Cardinality({e \in edge_metrics :
                                e.Activity = src /\ e.Target_Activity = tgt}) = 1
              /\ \A e \in edge_metrics :
                   (e.Activity = src /\ e.Target_Activity = tgt) =>
                     /\ e.Case_Count = Cardinality(PairRows(src, tgt))
                     /\ e.Total_Duration_Seconds
                          = SetSum(PairRows(src, tgt),
                                   [k \in PairRows(src, tgt) |-> df_edges[k].Duration_Seconds])
                     /\ e.Mean_Duration_Seconds.den > 0
                     /\ e.Mean_Duration_Seconds.num * e.Case_Count
                          = e.Total_Duration_Seconds * e.Mean_Duration_Seconds.den
    /\ \A e \in edge_metrics : e.Activity \in ActivitySet /\ e.Target_Activity \in ActivitySet
    /\ (log = ScenarioLog /\ args = NoArgs) =>
         /\ edge_metrics = {[Activity |-> "X", Target_Activity |-> "Y", Case_Count |-> 2,
                             Total_Duration_Seconds |-> 30,
                             Mean_Duration_Seconds |-> [num |-> 15, den |-> 1]]}
         /\ {<<g.Source_Activity, g.Target_Activity, g.Mean_Duration_Seconds>> :
               g \in graphData} = {<<"X", "Y", [num |-> 15, den |-> 1]>>}
         /\ Len(variants) = 1
         /\ variants[1].Variant_Path = <<"X", "Y">>
         /\ variants[1].Frequency = 2
         /\ variants[1].Avg_Timings = <<0, 1500>>
         /\ start_nodes = <<"X">>
         /\ end_nodes = <<"Y">>

\* C5, its case: the invocation on the log of Case A and Case B is done.
C5_ScenarioDone == pc = "done" /\ log = ScenarioLog /\ args = NoArgs

\* C9: every returned variant has True_Start_Count = Frequency and
\* True_End_Count = Frequency, for any log and any date options.
C9_TrueCountsEqualFrequency ==
  pc = "done" =>
    \A i \in 1..Len(variants) :
      /\ variants[i].True_Start_Count = variants[i].Frequency
      /\ variants[i].True_End_Count = variants[i].Frequency

NonDecreasingFromZero(t) ==
  /\ t[1] = 0
  /\ \A j \in 1..Len(t) : t[j] >= 0
  /\ \A j \in 1..(Len(t) - 1) : t[j] <= t[j + 1]

\* C10: for every returned variant the average and total timings are as
\* long as the path, not negative, non-decreasing along the path, and
\* start with 0, for any log and date bounds.
C10_TimingsShape ==
  pc = "done" =>
    \A i \in 1..Len(variants) :
      /\ Len(variants[i].Avg_Timings) = Len(variants[i].Variant_Path)
      /\ Len(variants[i].Total_Timings) = Len(variants[i].Variant_Path)
      /\ NonDecreasingFromZero(variants[i].Avg_Timings)
      /\ NonDecreasingFromZero(variants[i].Total_Timings)

(***************************************************************************)
(* The claims about the options, checked under SpecOptions.                *)
(***************************************************************************)
\* The filter bounds of the options contradict each other.
Contradictory(a) ==
  \/ a.min_cases # None /\ a.max_cases # None /\ a.min_cases > a.max_cases
  \/ /\ a.min_mean_time # None /\ a.max_mean_time # None
     /\ a.min_mean_time > a.max_mean_time

\* C6: an invocation whose options carry contradictory filter bounds does
\* not complete normally: the error is surfaced and no result is computed.
C6_ContradictoryBoundsRejected ==
  (pc \in {"done", "again"} /\ Contradictory(args)) => exit_code # 0

\* C8: for a fixed log and fixed date bounds, an invocation that differs
\* from the previous one in max_cases, min_mean_time, max_mean_time,
\* weight_metric or time_unit returns the same variants with the same
\* aggregates and the same start and end activities (compared as sets, the
\* order among rows of equal Frequency being left open by the grouping).
C8_VariantsIndependentOfEdgeOptions ==
  [][(pc = "done" /\ pc' = "again" /\ args'.min_cases = args.min_cases) =>
       /\ AggregateSet(variants') = AggregateSet(variants)
       /\ Members(start_nodes') = Members(start_nodes)
       /\ Members(end_nodes') = Members(end_nodes)]_vars

\* C8, its case: after an invocation that changed an edge option, min_cases
\* exceeds the Case_Count of every edge, so that graphData is empty, while
\* the variant list is not.
C8_EmptyGraphWithVariants ==
  /\ pc = "again"
  /\ args.min_cases # None
  /\ edge_metrics # {}
  /\ \A e \in edge_metrics : e.Case_Count < args.min_cases
  /\ graphData = {}
  /\ variants # <<>>

====
